---- MODULE Spec2Model ----
(***************************************************************************)
(* Webhook signature verification of paypal-rs                             *)
(* (src/src/webhook/verification.rs): the Certificate Loader, the          *)
(* process-wide LRU certificate cache behind one mutex, the Signature      *)
(* Verifier and the orchestrator verify_paypal_webhook_signature.          *)
(*                                                                         *)
(* Strings are sequences of one-character strings, so that starts_with,    *)
(* the byte-exact comparison of auth_algo and format!("{}|{}|{}|{}") are   *)
(* computed character by character.  A request body is its sequence of     *)
(* bytes.  A 32-bit unsigned value is a pair <<hi, lo>> of 16-bit halves.  *)
(***************************************************************************)
EXTENDS Integers, Sequences, FiniteSets, TLC

(***************************************************************************)
(* Strings                                                                 *)
(***************************************************************************)

\* str::starts_with
StartsWith(s, prefix) ==
    /\ Len(prefix) <= Len(s)
    /\ SubSeq(s, 1, Len(prefix)) = prefix

\* "https://api.paypal.com/"
PROD_PREFIX ==
    <<"h","t","t","p","s",":","/","/","a","p","i",".","p","a","y","p","a","l",".","c","o","m","/">>

\* "https://api.sandbox.paypal.com/"
SANDBOX_PREFIX ==
    <<"h","t","t","p","s",":","/","/","a","p","i",".","s","a","n","d","b","o","x",".",
      "p","a","y","p","a","l",".","c","o","m","/">>

\* "SHA256withRSA"
SHA256withRSA == <<"S","H","A","2","5","6","w","i","t","h","R","S","A">>

\* ASCII lower-casing of one character (the letters of the algorithm names).
ToLowerChar(c) ==
    CASE c = "S" -> "s" [] c = "H" -> "h" [] c = "A" -> "a" [] c = "R" -> "r"
      [] c = "W" -> "w" [] c = "I" -> "i" [] c = "T" -> "t" [] OTHER -> c

ToLower(s) == [i \in 1..Len(s) |-> ToLowerChar(s[i])]

\* A comparison that ignores ASCII case (str::eq_ignore_ascii_case).
AlgoDiffersIgnoringCase(auth_algo) == ToLower(auth_algo) # ToLower(SHA256withRSA)

\* auth_algo != "SHA256withRSA": String's byte-exact inequality.
AlgoDiffers(auth_algo) == auth_algo # SHA256withRSA

(***************************************************************************)
(* CRC-32 (IEEE 802.3, reflected polynomial 0xEDB88320), as crc32fast::hash *)
(* computes it, on <<hi, lo>> pairs of 16-bit halves.                      *)
(***************************************************************************)

RECURSIVE Xor(_, _)
Xor(a, b) ==
    IF a = 0 THEN b
    ELSE IF b = 0 THEN a
    ELSE ((a + b) % 2) + 2 * Xor(a \div 2, b \div 2)

Xor32(x, y) == <<Xor(x[1], y[1]), Xor(x[2], y[2])>>

ShiftRight1(x) == <<x[1] \div 2, (x[2] \div 2) + (x[1] % 2) * 32768>>

\* One bit of the reflected CRC: shift right, and xor the polynomial in when
\* the bit shifted out was set.
CrcShift(c) ==
    IF c[2] % 2 = 1 THEN Xor32(ShiftRight1(c), <<60856, 33568>>)
    ELSE ShiftRight1(c)

\* n bits.  (The test on d makes TLC compute d before it goes on.)
RECURSIVE CrcBits(_, _)
CrcBits(c, n) ==
    IF n = 0 THEN c
    ELSE LET d == CrcShift(c)
         IN  IF d[1] >= 0 THEN CrcBits(d, n - 1) ELSE d

RECURSIVE CrcBytes(_, _)
CrcBytes(c, bytes) ==
    IF bytes = <<>> THEN c
    ELSE LET d == CrcBits(Xor32(c, <<0, Head(bytes)>>), 8)
         IN  IF d[1] >= 0 THEN CrcBytes(d, Tail(bytes)) ELSE d

Crc32(bytes) == Xor32(CrcBytes(<<65535, 65535>>, bytes), <<65535, 65535>>)

(***************************************************************************)
(* Display of a u32 by format!("{}"): base 10, no sign, no leading zeros.  *)
(***************************************************************************)

Digit(d) == <<"0","1","2","3","4","5","6","7","8","9">>[d + 1]

\* <<quotient, remainder>> of a u32 divided by 10.
DivMod10(x) ==
    LET t == (x[1] % 10) * 65536 + x[2]
    IN  << <<x[1] \div 10, t \div 10>>, t % 10 >>

RECURSIVE DisplayU32(_)
DisplayU32(x) ==
    LET qr == DivMod10(x)
    IN  IF qr[1] = <<0, 0>> THEN <<Digit(qr[2])>>
        ELSE DisplayU32(qr[1]) \o <<Digit(qr[2])>>

\* Display of the same 32 bits read as an i32 (two's complement).
DisplayI32(x) ==
    IF x[1] < 32768 THEN DisplayU32(x)
    ELSE LET lo == (65536 - x[2]) % 65536
             hi == (65535 - x[1]) + (IF x[2] = 0 THEN 1 ELSE 0)
         IN  <<"-">> \o DisplayU32(<<hi, lo>>)

(***************************************************************************)
(* Keys, signatures and the header text that carries a signature.          *)
(*                                                                         *)
(* A key pair is named by an identifier; VerifyingKey<Sha256> is the       *)
(* public half.  The bytes of a signature are described by what they are:  *)
(* form "pkcs1v15" (Signature::try_from accepts them) or "malformed" (it   *)
(* rejects them), and, for a signature somebody produced, the key pair     *)
(* that signed and the message signed.  PKCS1v15 is deterministic: a key   *)
(* accepts exactly the signature its private half produces for a message.  *)
(* The text of paypal-transmission-sig is either the standard padded       *)
(* base64 of some bytes, or text that is not valid base64.                 *)
(***************************************************************************)

Keys == {"K1", "K2"}

NoBytes == [form |-> "none", signer |-> "none", msg |-> <<>>]

\* The PKCS1v15/SHA-256 signature of msg by the private half of key pair k.
Sign(k, msg) == [form |-> "pkcs1v15", signer |-> k, msg |-> msg]

\* Bytes of the right shape that no key pair of the model produced.
ForgedBytes == [form |-> "pkcs1v15", signer |-> "none", msg |-> <<>>]

\* Bytes that are not an RSA signature at all.
MalformedBytes == [form |-> "malformed", signer |-> "none", msg |-> <<>>]

\* The standard padded base64 text of bytes.
B64(bytes) == [b64 |-> TRUE, bytes |-> bytes]

\* A header value that is not valid standard padded base64.
NotBase64 == [b64 |-> FALSE, bytes |-> NoBytes]

\* A decoder that skips what it cannot decode and returns the rest.
Base64DecodeLossy(text) ==
    IF text.b64 THEN [ok |-> TRUE, bytes |-> text.bytes]
    ELSE [ok |-> TRUE, bytes |-> [form |-> "malformed", signer |-> "none", msg |-> <<>>]]

\* base64::engine::general_purpose::STANDARD.decode
Base64Decode(text) ==
    IF text.b64 THEN [ok |-> TRUE, bytes |-> text.bytes]
    ELSE [ok |-> FALSE, bytes |-> NoBytes]

\* A conversion that accepts any bytes.
SignatureTryFromAny(bytes) == [ok |-> TRUE, sig |-> bytes]

\* Signature::try_from(&[u8])
SignatureTryFrom(bytes) ==
    IF bytes.form = "pkcs1v15" THEN [ok |-> TRUE, sig |-> bytes]
    ELSE [ok |-> FALSE, sig |-> NoBytes]

\* VerifyingKey::verify(msg, &signature).is_ok()
KeyVerify(verifying_key, msg, signature) ==
    /\ signature.form = "pkcs1v15"
    /\ signature.signer = verifying_key
    /\ signature.msg = msg

(***************************************************************************)
(* Inputs of the model: header values, identifiers and bodies.             *)
(***************************************************************************)

\* paypal-transmission-id values: "a" and "a|b".
TransmissionIds == {<<"a">>, <<"a","|","b">>}

\* paypal-transmission-time values: "t" and "b|t".
TransmissionTimes == {<<"t">>, <<"b","|","t">>}

\* webhook ids: "w" and "W".
WebhookIds == {<<"w">>, <<"W">>}

\* Raw bodies: "{}", "{ }", "", and "plumless", "buckeroo" (whose CRC-32 agree).
BodyBraces == <<123, 125>>
BodySpaced == <<123, 32, 125>>
BodyEmpty == <<>>
BodyPlumless == <<112, 108, 117, 109, 108, 101, 115, 115>>
BodyBuckeroo == <<98, 117, 99, 107, 101, 114, 111, 111>>
Bodies == {BodyBraces, BodySpaced, BodyEmpty, BodyPlumless, BodyBuckeroo}

\* paypal-auth-algo values: exact, lower case, upper case, another algorithm.
AuthAlgos ==
    { SHA256withRSA,
      ToLower(SHA256withRSA),
      <<"S","H","A","2","5","6","W","I","T","H","R","S","A">>,
      <<"S","H","A","5","1","2","w","i","t","h","R","S","A">> }

\* The CRC-32 of the bodies of the model, computed once.
CrcTable == [b \in Bodies |-> Crc32(b)]

\* The body without its ASCII spaces, as a re-serialisation would leave it.
RECURSIVE StripSpaces(_)
StripSpaces(bytes) ==
    IF bytes = <<>> THEN <<>>
    ELSE IF Head(bytes) = 32 THEN StripSpaces(Tail(bytes))
    ELSE <<Head(bytes)>> \o StripSpaces(Tail(bytes))

\* A checksum of the re-serialised body instead of the raw bytes.
HashNormalized(bytes) == CrcTable[StripSpaces(bytes)]

\* crc32fast::hash(body.as_bytes())
Hash(bytes) == CrcTable[bytes]

\* What the provider signs, as the documentation of WebhookParams states it:
\* {transmission_id}|{transmission_time}|{webhook_id}|{crc32(body)}.
ProviderSignedString(transmission_id, transmission_time, webhook_id, body) ==
    transmission_id \o <<"|">> \o transmission_time \o <<"|">> \o webhook_id
        \o <<"|">> \o DisplayU32(CrcTable[body])

ProviderMessages ==
    { ProviderSignedString(i, t, w, b) :
        i \in TransmissionIds, t \in TransmissionTimes, w \in WebhookIds, b \in Bodies }

\* paypal-transmission-sig values.
TransmissionSigs ==
    {NotBase64, B64(MalformedBytes), B64(ForgedBytes)}
        \cup { B64(Sign(k, m)) : k \in Keys, m \in ProviderMessages }

WebhookParams ==
    [transmission_id : TransmissionIds, transmission_time : TransmissionTimes,
     transmission_sig : TransmissionSigs, auth_algo : AuthAlgos]

(***************************************************************************)
(* The Signature Verifier                                                  *)
(***************************************************************************)

\* Result<bool, PayPalWebhookValidationError>
VOk(b) == [tag |-> "Ok", verdict |-> b, err |-> "none", arg |-> <<>>]
VErr(e, a) == [tag |-> "Err", verdict |-> FALSE, err |-> e, arg |-> a]
NoVResult == [tag |-> "none", verdict |-> FALSE, err |-> "none", arg |-> <<>>]

\* format!("{}|{}|{}|{}", transmission_id, transmission_time, webhook_id, crc)
ExpectedSigSigned(transmission_id, transmission_time, webhook_id, crc) ==
    transmission_id \o <<"|">> \o transmission_time \o <<"|">> \o webhook_id
        \o <<"|">> \o DisplayI32(crc)

\* The same with the first two arguments in the other order.
ExpectedSigTimeFirst(transmission_id, transmission_time, webhook_id, crc) ==
    transmission_time \o <<"|">> \o transmission_id \o <<"|">> \o webhook_id
        \o <<"|">> \o DisplayU32(crc)

ExpectedSig(transmission_id, transmission_time, webhook_id, crc) ==
    transmission_id \o <<"|">> \o transmission_time \o <<"|">> \o webhook_id
        \o <<"|">> \o DisplayU32(crc)

\* A verification failure passed on as an error, as `?` would.
MatchVerifyPropagating(verified) ==
    IF verified THEN VOk(TRUE) ELSE VErr("InvalidSignature", <<>>)

\* match verifying_key.verify(..) { Ok(_) => Ok(true), Err(e) => Ok(false) }
MatchVerify(verified) == IF verified THEN VOk(TRUE) ELSE VOk(FALSE)

\* verify_paypal_webhook_signature_with_key: its result, the steps it took in
\* order (work) and the message it handed to the key (msg, <<>> when none).
VerifyWithKey(params, body, webhook_id, verifying_key) ==
    IF AlgoDiffers(params.auth_algo)
    THEN [res |-> VErr("UnsupportedAuthAlgo", params.auth_algo),
          work |-> <<"algo">>, msg |-> <<>>]
    ELSE
    LET crc == Hash(body)
        expected_sig == ExpectedSig(params.transmission_id, params.transmission_time,
                                    webhook_id, crc)
        decoded == Base64Decode(params.transmission_sig)
        parsed == SignatureTryFrom(decoded.bytes)
    IN  IF ~decoded.ok
        THEN [res |-> VErr("InvalidSignatureB64", <<>>),
              work |-> <<"algo", "crc32", "format", "b64_decode">>, msg |-> <<>>]
        ELSE IF ~parsed.ok
        THEN [res |-> VErr("InvalidSignature", <<>>),
              work |-> <<"algo", "crc32", "format", "b64_decode", "sig_parse">>,
              msg |-> <<>>]
        ELSE [res |-> MatchVerify(KeyVerify(verifying_key, expected_sig, parsed.sig)),
              work |-> <<"algo", "crc32", "format", "b64_decode", "sig_parse",
                         "key_verify">>,
              msg |-> expected_sig]

(***************************************************************************)
(* The Certificate Loader                                                  *)
(***************************************************************************)

\* Result<_, PayPalWebhookValidationCertError> of the orchestrator, and
\* Result<VerifyingKey, PayPalWebhookCertificateError> of the loader (which
\* carries its key in `key`).  `stage` is the variant of the combined error.
ROk(b) ==
    [tag |-> "Ok", verdict |-> b, key |-> "none", stage |-> "none", err |-> "none",
     arg |-> <<>>]
KeyOk(k) ==
    [tag |-> "Ok", verdict |-> FALSE, key |-> k, stage |-> "none", err |-> "none",
     arg |-> <<>>]
CertErr(e, a) ==
    [tag |-> "Err", verdict |-> FALSE, key |-> "none", stage |-> "Certificate",
     err |-> e, arg |-> a]
NoResult ==
    [tag |-> "none", verdict |-> FALSE, key |-> "none", stage |-> "none",
     err |-> "none", arg |-> <<>>]

\* A conversion that turns a verifier error into the verdict false.
FromValidationSwallowed(r) ==
    IF r.tag = "Ok" THEN ROk(r.verdict) ELSE ROk(FALSE)

\* From<PayPalWebhookValidationError> for PayPalWebhookValidationCertError
FromValidation(r) ==
    IF r.tag = "Ok" THEN ROk(r.verdict)
    ELSE [tag |-> "Err", verdict |-> FALSE, key |-> "none", stage |-> "Validation",
          err |-> r.err, arg |-> r.arg]

\* A check against the prefixes without their final '/':
\* "https://api.paypal.com" and "https://api.sandbox.paypal.com".
OriginAllowedNoSlash(cert_url) ==
    \/ StartsWith(cert_url, SubSeq(PROD_PREFIX, 1, Len(PROD_PREFIX) - 1))
    \/ StartsWith(cert_url, SubSeq(SANDBOX_PREFIX, 1, Len(SANDBOX_PREFIX) - 1))

\* The origin check of load_verification_key.
OriginAllowed(cert_url) ==
    ~(~StartsWith(cert_url, PROD_PREFIX) /\ ~StartsWith(cert_url, SANDBOX_PREFIX))

\* What a GET can come back with.  net: "connect_error" (reqwest::get fails),
\* "body_error" (Response::text fails) or "ok"; status: the HTTP status;
\* body: the text served, by how far extract_verifying_key_from_pem gets
\* with it: "not_pem", "bad_der" (a PEM block that is no X.509 certificate),
\* "not_rsa" (a certificate whose key is no PKCS#1 RSA key) or "cert" (a
\* certificate of key pair `key`).
Body(kind, k) == [kind |-> kind, key |-> k]

Responses ==
    { [net |-> "connect_error", status |-> 0, body |-> Body("none", "none")],
      [net |-> "body_error", status |-> 200, body |-> Body("none", "none")],
      [net |-> "ok", status |-> 200, body |-> Body("not_pem", "none")],
      [net |-> "ok", status |-> 200, body |-> Body("bad_der", "none")],
      [net |-> "ok", status |-> 200, body |-> Body("not_rsa", "none")],
      [net |-> "ok", status |-> 404, body |-> Body("not_pem", "none")] }
    \cup { [net |-> "ok", status |-> 200, body |-> Body("cert", k)] : k \in Keys }

\* extract_verifying_key_from_pem reporting a PEM block that is no X.509
\* certificate with the variant of the PEM stage.
ExtractX509AsPem(cert_pem) ==
    IF cert_pem.kind \in {"not_pem", "bad_der"}
    THEN [res |-> CertErr("PEMLoading", <<>>),
          work |-> IF cert_pem.kind = "not_pem" THEN <<"pem_parse">>
                   ELSE <<"pem_parse", "x509_parse">>]
    ELSE IF cert_pem.kind = "not_rsa"
    THEN [res |-> CertErr("RSA", <<>>),
          work |-> <<"pem_parse", "x509_parse", "rsa_parse">>]
    ELSE [res |-> KeyOk(cert_pem.key),
          work |-> <<"pem_parse", "x509_parse", "rsa_parse">>]

\* extract_verifying_key_from_pem: its result and the parses it ran, in order.
ExtractVerifyingKeyFromPem(cert_pem) ==
    IF cert_pem.kind = "not_pem"
    THEN [res |-> CertErr("PEMLoading", <<>>), work |-> <<"pem_parse">>]
    ELSE IF cert_pem.kind = "bad_der"
    THEN [res |-> CertErr("X509Nom", <<>>), work |-> <<"pem_parse", "x509_parse">>]
    ELSE IF cert_pem.kind = "not_rsa"
    THEN [res |-> CertErr("RSA", <<>>),
          work |-> <<"pem_parse", "x509_parse", "rsa_parse">>]
    ELSE [res |-> KeyOk(cert_pem.key),
          work |-> <<"pem_parse", "x509_parse", "rsa_parse">>]

\* load_verification_key from the point where the GET comes back with resp:
\* the two `?` on reqwest's results (the status is never looked at), then
\* extract_verifying_key_from_pem.
LoadAfterGet(resp) ==
    IF resp.net = "connect_error"
    THEN [res |-> CertErr("Reqwest", <<>>), work |-> <<>>]
    ELSE IF resp.net = "body_error"
    THEN [res |-> CertErr("Reqwest", <<>>), work |-> <<"read_body">>]
    ELSE LET x == ExtractVerifyingKeyFromPem(resp.body)
         IN  [res |-> x.res, work |-> <<"read_body">> \o x.work]

(***************************************************************************)
(* The Certificate Cache: LruCache<String, VerifyingKey<Sha256>>, as the   *)
(* sequence of its entries, most recently used first.                      *)
(***************************************************************************)

LRU_CACHE_SIZE == 10

CacheUrls(c) == {c[i].url : i \in 1..Len(c)}

CacheIndex(c, url) == CHOOSE i \in 1..Len(c) : c[i].url = url

Without(c, i) == SubSeq(c, 1, i - 1) \o SubSeq(c, i + 1, Len(c))

\* A lookup that matches an entry of the same origin, not the same URL.
SameOrigin(u, v) ==
    \/ StartsWith(u, PROD_PREFIX) /\ StartsWith(v, PROD_PREFIX)
    \/ StartsWith(u, SANDBOX_PREFIX) /\ StartsWith(v, SANDBOX_PREFIX)

CacheGetByOrigin(c, url) ==
    IF \E i \in 1..Len(c) : SameOrigin(c[i].url, url)
    THEN LET i == CHOOSE j \in 1..Len(c) : SameOrigin(c[j].url, url)
         IN  [hit |-> TRUE, key |-> c[i].key, cache |-> <<c[i]>> \o Without(c, i)]
    ELSE [hit |-> FALSE, key |-> "none", cache |-> c]

\* A lookup that returns the value and leaves the order as it was
\* (LruCache::peek).
CacheGetPeek(c, url) ==
    IF url \in CacheUrls(c)
    THEN [hit |-> TRUE, key |-> c[CacheIndex(c, url)].key, cache |-> c]
    ELSE [hit |-> FALSE, key |-> "none", cache |-> c]

\* A lookup that matches an entry whose URL begins with the URL looked up, or
\* the other way round.
CacheGetByPrefix(c, url) ==
    IF \E i \in 1..Len(c) : StartsWith(c[i].url, url) \/ StartsWith(url, c[i].url)
    THEN LET i == CHOOSE j \in 1..Len(c) :
                      StartsWith(c[j].url, url) \/ StartsWith(url, c[j].url)
         IN  [hit |-> TRUE, key |-> c[i].key, cache |-> <<c[i]>> \o Without(c, i)]
    ELSE [hit |-> FALSE, key |-> "none", cache |-> c]

\* A lookup that, on a miss in a full cache, makes room for the insert to
\* come by dropping the least recently used entry.
CacheGetMakingRoom(c, url) ==
    IF url \in CacheUrls(c)
    THEN LET i == CacheIndex(c, url)
         IN  [hit |-> TRUE, key |-> c[i].key, cache |-> <<c[i]>> \o Without(c, i)]
    ELSE [hit |-> FALSE, key |-> "none",
          cache |-> IF Len(c) >= LRU_CACHE_SIZE THEN SubSeq(c, 1, Len(c) - 1) ELSE c]

\* LruCache::get: the value, and the cache with the entry moved to the front.
CacheGet(c, url) ==
    IF url \in CacheUrls(c)
    THEN LET i == CacheIndex(c, url)
         IN  [hit |-> TRUE, key |-> c[i].key, cache |-> <<c[i]>> \o Without(c, i)]
    ELSE [hit |-> FALSE, key |-> "none", cache |-> c]

\* An insert that empties a full cache instead of evicting one entry.
CachePutClearsWhenFull(c, url, k) ==
    LET e == [url |-> url, key |-> k]
    IN  IF url \in CacheUrls(c) THEN <<e>> \o Without(c, CacheIndex(c, url))
        ELSE IF Len(c) >= LRU_CACHE_SIZE THEN <<e>>
        ELSE <<e>> \o c

\* An insert that evicts only once the cache holds more than its capacity.
CachePutOverCapacity(c, url, k) ==
    LET e == [url |-> url, key |-> k]
    IN  IF url \in CacheUrls(c) THEN <<e>> \o Without(c, CacheIndex(c, url))
        ELSE IF Len(c) > LRU_CACHE_SIZE THEN <<e>> \o SubSeq(c, 1, LRU_CACHE_SIZE - 1)
        ELSE <<e>> \o c

\* An insert under the origin of the URL, not the URL.
CachePutUnderOrigin(c, url, k) ==
    LET o == IF StartsWith(url, PROD_PREFIX) THEN PROD_PREFIX ELSE SANDBOX_PREFIX
        e == [url |-> o, key |-> k]
    IN  IF o \in CacheUrls(c) THEN <<e>> \o Without(c, CacheIndex(c, o))
        ELSE IF Len(c) >= LRU_CACHE_SIZE THEN <<e>> \o SubSeq(c, 1, LRU_CACHE_SIZE - 1)
        ELSE <<e>> \o c

\* An insert that evicts the most recently used entry of a full cache.
CachePutEvictsNewest(c, url, k) ==
    LET e == [url |-> url, key |-> k]
    IN  IF url \in CacheUrls(c) THEN <<e>> \o Without(c, CacheIndex(c, url))
        ELSE IF Len(c) >= LRU_CACHE_SIZE THEN <<e>> \o SubSeq(c, 2, LRU_CACHE_SIZE)
        ELSE <<e>> \o c

\* An insert that takes a URL already cached for a new one.
CachePutDuplicating(c, url, k) ==
    LET e == [url |-> url, key |-> k]
    IN  IF Len(c) >= LRU_CACHE_SIZE THEN <<e>> \o SubSeq(c, 1, LRU_CACHE_SIZE - 1)
        ELSE <<e>> \o c

\* LruCache::put: an existing entry is replaced and moved to the front; a new
\* one is put at the front, the last one leaving when the cache is full.
CachePut(c, url, k) ==
    LET e == [url |-> url, key |-> k]
    IN  IF url \in CacheUrls(c) THEN <<e>> \o Without(c, CacheIndex(c, url))
        ELSE IF Len(c) >= LRU_CACHE_SIZE THEN <<e>> \o SubSeq(c, 1, LRU_CACHE_SIZE - 1)
        ELSE <<e>> \o c

(***************************************************************************)
(* Callers and their inputs                                                *)
(***************************************************************************)

\* Concurrent callers (tasks).
Procs == {1, 2}

\* Calls started in one run of the model.
MaxCalls == 2

\* "https://api.paypal.com/c1" and "https://api.sandbox.paypal.com/c2"
UrlProd == PROD_PREFIX \o <<"c", "1">>
UrlSandbox == SANDBOX_PREFIX \o <<"c", "2">>

\* "https://evil.example.com/cert.pem"
UrlEvil ==
    <<"h","t","t","p","s",":","/","/","e","v","i","l",".","e","x","a","m","p","l","e",
      ".","c","o","m","/","c","e","r","t",".","p","e","m">>

\* "https://api.paypal.com.evil.example/c": an allowed host as a prefix of
\* another host.
UrlNear ==
    SubSeq(PROD_PREFIX, 1, Len(PROD_PREFIX) - 1)
        \o <<".","e","v","i","l",".","e","x","a","m","p","l","e","/","c">>

\* "https://api.paypal.com/f<i>": certificates resolved before the run starts.
UrlFiller(i) == PROD_PREFIX \o <<"f">> \o DisplayU32(<<0, i>>)

CertUrls == {UrlProd, UrlSandbox, UrlFiller(1), UrlEvil, UrlNear}

\* A delivery signed by key pair k over ("a", "t", "w", "{}").
GenuineSig(k) == B64(Sign(k, ProviderSignedString(<<"a">>, <<"t">>, <<"w">>, BodyBraces)))

Delivery(sig, algo) ==
    [params |-> [transmission_id |-> <<"a">>, transmission_time |-> <<"t">>,
                 transmission_sig |-> sig, auth_algo |-> algo],
     body |-> BodyBraces, webhook_id |-> <<"w">>]

\* The deliveries the orchestrator is called with: a genuine one, the same
\* with a lower-case auth_algo, and one whose signature is not base64.
Deliveries ==
    { Delivery(GenuineSig("K1"), SHA256withRSA),
      Delivery(GenuineSig("K1"), ToLower(SHA256withRSA)),
      Delivery(NotBase64, SHA256withRSA) }

NoDelivery == Delivery(NotBase64, <<>>)

NoCall == [entry |-> "none", cert_url |-> <<>>, delivery |-> NoDelivery]

\* The cache after the first n filler URLs were resolved in turn.
RECURSIVE Prefilled(_)
Prefilled(n) ==
    IF n = 0 THEN <<>>
    ELSE CachePut(Prefilled(n - 1), UrlFiller(n), "K1")

\* The inputs of a direct call of verify_paypal_webhook_signature_with_key.
VerifierCalls ==
    [params : WebhookParams, body : Bodies, webhook_id : WebhookIds,
     verifying_key : Keys]

NoVerifierCall ==
    [params |-> NoDelivery.params, body |-> NoDelivery.body,
     webhook_id |-> NoDelivery.webhook_id, verifying_key |-> "none"]

NoOut == [res |-> NoVResult, work |-> <<>>, msg |-> <<>>]

\* No GET of the call has come back.
NoResponse == [net |-> "none", status |-> 0, body |-> Body("none", "none")]

\* The order of last use after url was hit or inserted: url first, the rest
\* as they were.
Touch(url, s) == <<url>> \o SelectSeq(s, LAMBDA u : u # url)

(***************************************************************************)
(* State                                                                   *)
(***************************************************************************)

VARIABLES
    cache,    \* CERT_CACHE: entries [url, key], most recently used first
    lock,     \* the Mutex of CERT_CACHE: 0 when free, else the caller holding it
    pc,       \* where each caller stands
    call,     \* each caller's entry point and arguments
    key,      \* the key each caller has resolved ("none" before)
    result,   \* what each caller's call returned
    work,     \* the steps each caller's call has taken, in order
    loaded,   \* <<url, key>>: load_verification_key returned key for url
    resp,     \* what each caller's GET came back with (NoResponse before)
    used,     \* URLs hit in or inserted into CERT_CACHE, latest use first
    twin,     \* CERT_CACHE of a second run, given the same URLs and responses
    calls,    \* calls started so far
    vpc,      \* a direct call of the verifier: "call" or "returned"
    vcall,    \* its arguments
    vout,     \* its result, steps and message
    vprev     \* the call made before one argument was changed

vars == <<cache, lock, pc, call, key, result, work, loaded, resp, used, twin, calls, vpc, vcall, vout, vprev>>
ovars == <<cache, lock, pc, call, key, result, work, loaded, resp, used, twin, calls>>
vvars == <<vpc, vcall, vout, vprev>>

OInit ==
    /\ cache \in {Prefilled(0), Prefilled(LRU_CACHE_SIZE)}
    /\ lock = 0
    /\ pc = [p \in Procs |-> "idle"]
    /\ call = [p \in Procs |-> NoCall]
    /\ key = [p \in Procs |-> "none"]
    /\ result = [p \in Procs |-> NoResult]
    /\ work = [p \in Procs |-> <<>>]
    /\ loaded = {<<cache[i].url, cache[i].key>> : i \in 1..Len(cache)}
    /\ resp = [p \in Procs |-> NoResponse]
    /\ used = [i \in 1..Len(cache) |-> cache[i].url]
    /\ twin = cache
    /\ calls = 0

VIdle ==
    /\ vpc = "none"
    /\ vcall = NoVerifierCall
    /\ vout = NoOut
    /\ vprev = [field |-> "none", call |-> vcall, res |-> NoVResult]

Init == OInit /\ VIdle

(***************************************************************************)
(* The orchestrator, step by step                                          *)
(***************************************************************************)

Did(p, steps) == work' = [work EXCEPT ![p] = @ \o steps]

\* A caller enters verify_paypal_webhook_signature.
CallVerify(p) ==
    /\ pc[p] = "idle"
    /\ calls < MaxCalls
    /\ \E u \in CertUrls, d \in Deliveries :
           call' = [call EXCEPT ![p] =
                      [entry |-> "verify_paypal_webhook_signature", cert_url |-> u,
                       delivery |-> d]]
    /\ pc' = [pc EXCEPT ![p] = "lookup_lock"]
    /\ calls' = calls + 1
    /\ UNCHANGED <<cache, lock, key, result, work, loaded, resp, used, twin, vvars>>

\* A caller enters load_verification_key directly.
CallLoad(p) ==
    /\ pc[p] = "idle"
    /\ calls < MaxCalls
    /\ \E u \in CertUrls :
           call' = [call EXCEPT ![p] =
                      [entry |-> "load_verification_key", cert_url |-> u,
                       delivery |-> NoDelivery]]
    /\ pc' = [pc EXCEPT ![p] = "load"]
    /\ calls' = calls + 1
    /\ UNCHANGED <<cache, lock, key, result, work, loaded, resp, used, twin, vvars>>

\* CERT_CACHE.lock() of the lookup block.
LockForGet(p) ==
    /\ pc[p] = "lookup_lock"
    /\ lock = 0
    /\ lock' = p
    /\ pc' = [pc EXCEPT ![p] = "lookup"]
    /\ UNCHANGED <<cache, call, key, result, work, loaded, resp, used, calls, twin, vvars>>

\* A lookup whose guard outlives the block on a miss: the lock stays with the
\* caller through load_verification_key.
LookupKeepsLock(p) ==
    /\ pc[p] = "lookup"
    /\ lock = p
    /\ LET g == CacheGet(cache, call[p].cert_url)
       IN  /\ cache' = g.cache
           /\ key' = [key EXCEPT ![p] = g.key]
           /\ pc' = [pc EXCEPT ![p] = IF g.hit THEN "verify" ELSE "load"]
           /\ Did(p, IF g.hit THEN <<"cache_hit">> ELSE <<"cache_miss">>)
           /\ used' = IF g.hit THEN Touch(call[p].cert_url, used) ELSE used
           /\ lock' = IF g.hit THEN 0 ELSE p
    /\ UNCHANGED <<call, result, loaded, resp, calls, twin, vvars>>

\* A lookup that takes a cached key for stale, and the hit for a miss, once
\* the server is known to have served another key for the URL.
LookupCheckingFreshness(p) ==
    /\ pc[p] = "lookup"
    /\ lock = p
    /\ LET g == CacheGet(cache, call[p].cert_url)
           fresh == g.hit /\ \A l \in loaded : l[1] = call[p].cert_url => l[2] = g.key
       IN  /\ cache' = g.cache
           /\ key' = [key EXCEPT ![p] = IF fresh THEN g.key ELSE "none"]
           /\ pc' = [pc EXCEPT ![p] = IF fresh THEN "verify" ELSE "load"]
           /\ Did(p, IF fresh THEN <<"cache_hit">> ELSE <<"cache_miss">>)
           /\ used' = IF g.hit THEN Touch(call[p].cert_url, used) ELSE used
    /\ lock' = 0
    /\ UNCHANGED <<call, result, loaded, resp, calls, twin, vvars>>

\* cache.get(cert_url) and the end of the block, which drops the guard.
Lookup(p) ==
    /\ pc[p] = "lookup"
    /\ lock = p
    /\ LET g == CacheGet(cache, call[p].cert_url)
       IN  /\ cache' = g.cache
           /\ key' = [key EXCEPT ![p] = g.key]
           /\ pc' = [pc EXCEPT ![p] = IF g.hit THEN "verify" ELSE "load"]
           /\ Did(p, IF g.hit THEN <<"cache_hit">> ELSE <<"cache_miss">>)
           /\ used' = IF g.hit THEN Touch(call[p].cert_url, used) ELSE used
    /\ lock' = 0
    /\ UNCHANGED <<call, result, loaded, resp, calls, twin, vvars>>

\* load_verification_key up to reqwest::get(cert_url): the origin check, then
\* the request goes out.
OriginCheck(p) ==
    /\ pc[p] = "load"
    /\ IF OriginAllowed(call[p].cert_url)
       THEN /\ pc' = [pc EXCEPT ![p] = "fetch"]
            /\ Did(p, <<"origin_check", "http_get">>)
            /\ UNCHANGED result
       ELSE /\ pc' = [pc EXCEPT ![p] = "done"]
            /\ Did(p, <<"origin_check">>)
            /\ result' = [result EXCEPT ![p] =
                            CertErr("InvalidCertificateUrl", call[p].cert_url)]
    /\ UNCHANGED <<cache, lock, call, key, loaded, resp, used, calls, twin, vvars>>

\* FetchReturn sending the GET once more when reqwest::get fails to connect.
FetchReturnRetrying(p) ==
    /\ pc[p] = "fetch"
    /\ \E r \in Responses :
         LET l == LoadAfterGet(r)
         IN  /\ resp' = [resp EXCEPT ![p] = r]
             /\ IF r.net = "connect_error"
                THEN /\ Did(p, <<"http_get">>)
                     /\ UNCHANGED <<pc, key, result, loaded>>
                ELSE /\ Did(p, l.work)
                     /\ IF l.res.tag = "Ok"
                        THEN /\ key' = [key EXCEPT ![p] = l.res.key]
                             /\ loaded' = loaded \cup {<<call[p].cert_url, l.res.key>>}
                             /\ IF call[p].entry = "load_verification_key"
                                THEN /\ pc' = [pc EXCEPT ![p] = "done"]
                                     /\ result' = [result EXCEPT ![p] = l.res]
                                ELSE /\ pc' = [pc EXCEPT ![p] = "insert_lock"]
                                     /\ UNCHANGED result
                        ELSE /\ pc' = [pc EXCEPT ![p] = "done"]
                             /\ result' = [result EXCEPT ![p] = l.res]
                             /\ UNCHANGED <<key, loaded>>
    /\ UNCHANGED <<cache, lock, call, used, calls, twin, vvars>>

\* The GET comes back and load_verification_key runs to its end; a failure
\* leaves fetch_or_load_verification_key and the orchestrator through `?`.
FetchReturn(p) ==
    /\ pc[p] = "fetch"
    /\ \E r \in Responses :
         LET l == LoadAfterGet(r)
         IN  /\ Did(p, l.work)
             /\ resp' = [resp EXCEPT ![p] = r]
             /\ IF l.res.tag = "Ok"
                THEN /\ key' = [key EXCEPT ![p] = l.res.key]
                     /\ loaded' = loaded \cup {<<call[p].cert_url, l.res.key>>}
                     /\ IF call[p].entry = "load_verification_key"
                        THEN /\ pc' = [pc EXCEPT ![p] = "done"]
                             /\ result' = [result EXCEPT ![p] = l.res]
                        ELSE /\ pc' = [pc EXCEPT ![p] = "insert_lock"]
                             /\ UNCHANGED result
                ELSE /\ pc' = [pc EXCEPT ![p] = "done"]
                     /\ result' = [result EXCEPT ![p] = l.res]
                     /\ UNCHANGED <<key, loaded>>
    /\ UNCHANGED <<cache, lock, call, used, calls, twin, vvars>>

\* CERT_CACHE.lock() before the insert.
LockForPut(p) ==
    /\ pc[p] = "insert_lock"
    /\ lock = 0
    /\ lock' = p
    /\ pc' = [pc EXCEPT ![p] = "insert"]
    /\ UNCHANGED <<cache, call, key, result, work, loaded, resp, used, calls, twin, vvars>>

\* An insert whose guard is never dropped.
InsertKeepsLock(p) ==
    /\ pc[p] = "insert"
    /\ lock = p
    /\ cache' = CachePut(cache, call[p].cert_url, key[p])
    /\ pc' = [pc EXCEPT ![p] = "verify"]
    /\ Did(p, <<"cache_put">>)
    /\ used' = Touch(call[p].cert_url, used)
    /\ UNCHANGED <<lock, call, key, result, loaded, resp, calls, twin, vvars>>

\* cache.put(cert_url, key) and the return, which drops the guard.
Insert(p) ==
    /\ pc[p] = "insert"
    /\ lock = p
    /\ cache' = CachePut(cache, call[p].cert_url, key[p])
    /\ lock' = 0
    /\ pc' = [pc EXCEPT ![p] = "verify"]
    /\ Did(p, <<"cache_put">>)
    /\ used' = Touch(call[p].cert_url, used)
    /\ UNCHANGED <<call, key, result, loaded, resp, calls, twin, vvars>>

\* The verification step dropping the URL's entry from CERT_CACHE when the
\* verifier did not return Ok(true).
VerifyInvalidating(p) ==
    /\ pc[p] = "verify"
    /\ LET d == call[p].delivery
           v == VerifyWithKey(d.params, d.body, d.webhook_id, key[p])
       IN  /\ result' = [result EXCEPT ![p] = FromValidation(v.res)]
           /\ Did(p, v.work)
           /\ cache' = IF v.res = VOk(TRUE) THEN cache
                       ELSE SelectSeq(cache, LAMBDA e : e.url # call[p].cert_url)
    /\ pc' = [pc EXCEPT ![p] = "done"]
    /\ UNCHANGED <<lock, call, key, loaded, resp, used, calls, twin, vvars>>

\* verify_paypal_webhook_signature_with_key(params, body, webhook_id, &key)?
Verify(p) ==
    /\ pc[p] = "verify"
    /\ LET d == call[p].delivery
           v == VerifyWithKey(d.params, d.body, d.webhook_id, key[p])
       IN  /\ result' = [result EXCEPT ![p] = FromValidation(v.res)]
           /\ Did(p, v.work)
    /\ pc' = [pc EXCEPT ![p] = "done"]
    /\ UNCHANGED <<cache, lock, call, key, loaded, resp, used, calls, twin, vvars>>

\* The caller takes the result; its locals are gone.
Return(p) ==
    /\ pc[p] = "done"
    /\ pc' = [pc EXCEPT ![p] = "idle"]
    /\ call' = [call EXCEPT ![p] = NoCall]
    /\ key' = [key EXCEPT ![p] = "none"]
    /\ result' = [result EXCEPT ![p] = NoResult]
    /\ work' = [work EXCEPT ![p] = <<>>]
    /\ resp' = [resp EXCEPT ![p] = NoResponse]
    /\ UNCHANGED <<cache, lock, loaded, used, calls, twin, vvars>>

Next ==
    \E p \in Procs :
        \/ CallVerify(p)
        \/ CallLoad(p)
        \/ LockForGet(p)
        \/ Lookup(p)
        \/ OriginCheck(p)
        \/ FetchReturn(p)
        \/ LockForPut(p)
        \/ Insert(p)
        \/ Verify(p)
        \/ Return(p)

Spec == Init /\ [][Next]_vars

\* Fair scheduling, and every GET coming back: a step of a call that can be
\* taken is taken in the end, and a caller that finds the lock free again and
\* again gets it in the end.  The verifier computes and returns: no caller
\* stays at its call for ever, which is weak fairness of Verify(p), enabled
\* exactly when pc[p] = "verify".  Starting a call and taking the result are
\* left to the caller.
Fairness ==
    \A p \in Procs :
        /\ SF_vars(LockForGet(p))
        /\ WF_vars(Lookup(p))
        /\ WF_vars(OriginCheck(p))
        /\ WF_vars(FetchReturn(p))
        /\ SF_vars(LockForPut(p))
        /\ WF_vars(Insert(p))
        /\ []<>(pc[p] # "verify")

SpecLive == Spec /\ Fairness

(***************************************************************************)
(* Direct calls of verify_paypal_webhook_signature_with_key: every         *)
(* combination of the inputs of the model, and the same call made again    *)
(* with exactly one of its arguments changed.                              *)
(***************************************************************************)

InitVerifier ==
    /\ OInit
    /\ cache = <<>>
    /\ vpc = "call"
    /\ vcall \in VerifierCalls
    /\ vout = NoOut
    /\ vprev = [field |-> "none", call |-> vcall, res |-> NoVResult]

\* verify_paypal_webhook_signature_with_key runs and returns.
VerifierRun ==
    /\ vpc = "call"
    /\ vout' = VerifyWithKey(vcall.params, vcall.body, vcall.webhook_id,
                             vcall.verifying_key)
    /\ vpc' = "returned"
    /\ UNCHANGED <<vcall, vprev, ovars>>

Again(field, c) ==
    /\ vpc = "returned"
    /\ vprev.field = "none"
    /\ vprev' = [field |-> field, call |-> vcall, res |-> vout.res]
    /\ vcall' = c
    /\ vout' = NoOut
    /\ vpc' = "call"
    /\ UNCHANGED ovars

ChangeTransmissionId ==
    \E v \in TransmissionIds \ {vcall.params.transmission_id} :
        Again("transmission_id", [vcall EXCEPT !.params.transmission_id = v])

ChangeTransmissionTime ==
    \E v \in TransmissionTimes \ {vcall.params.transmission_time} :
        Again("transmission_time", [vcall EXCEPT !.params.transmission_time = v])

ChangeWebhookId ==
    \E v \in WebhookIds \ {vcall.webhook_id} :
        Again("webhook_id", [vcall EXCEPT !.webhook_id = v])

ChangeBody ==
    \E v \in Bodies \ {vcall.body} :
        Again("body", [vcall EXCEPT !.body = v])

NextVerifier ==
    \/ VerifierRun
    \/ ChangeTransmissionId
    \/ ChangeTransmissionTime
    \/ ChangeWebhookId
    \/ ChangeBody

SpecVerifier == InitVerifier /\ [][NextVerifier]_vars

(***************************************************************************)
(* Two runs of calls of verify_paypal_webhook_signature, one after the     *)
(* other: the same cert_url and the same response in both runs, the        *)
(* delivery (params, body, webhook_id) chosen freely in each.              *)
(***************************************************************************)

\* A delivery with other fields, another body and another webhook id, signed
\* by the other key pair.
DeliveryOther ==
    [params |-> [transmission_id |-> <<"a", "|", "b">>, transmission_time |-> <<"t">>,
                 transmission_sig |->
                     B64(Sign("K2", ProviderSignedString(<<"a", "|", "b">>, <<"t">>,
                                                         <<"W">>, BodySpaced))),
                 auth_algo |-> SHA256withRSA],
     body |-> BodySpaced, webhook_id |-> <<"W">>]

TwinDeliveries == Deliveries \cup {DeliveryOther}

\* A call that puts the key into the cache only once the signature verified.
OrchestratorCallCachingVerified(c, cert_url, r, d) ==
    LET g == CacheGet(c, cert_url)
    IN  IF g.hit
        THEN [cache |-> g.cache,
              res |-> FromValidation(
                          VerifyWithKey(d.params, d.body, d.webhook_id, g.key).res)]
        ELSE IF ~OriginAllowed(cert_url)
        THEN [cache |-> g.cache, res |-> CertErr("InvalidCertificateUrl", cert_url)]
        ELSE LET l == LoadAfterGet(r)
             IN  IF l.res.tag = "Err"
                 THEN [cache |-> g.cache, res |-> l.res]
                 ELSE LET v == VerifyWithKey(d.params, d.body, d.webhook_id,
                                             l.res.key).res
                      IN  [cache |-> IF v = VOk(TRUE)
                                     THEN CachePut(g.cache, cert_url, l.res.key)
                                     ELSE g.cache,
                           res |-> FromValidation(v)]

\* verify_paypal_webhook_signature from call to return with no other caller
\* running: the cache it leaves and its result.  r is what the GET comes back
\* with if one is sent.
OrchestratorCall(c, cert_url, r, d) ==
    LET g == CacheGet(c, cert_url)
    IN  IF g.hit
        THEN [cache |-> g.cache,
              res |-> FromValidation(
                          VerifyWithKey(d.params, d.body, d.webhook_id, g.key).res)]
        ELSE IF ~OriginAllowed(cert_url)
        THEN [cache |-> g.cache, res |-> CertErr("InvalidCertificateUrl", cert_url)]
        ELSE LET l == LoadAfterGet(r)
             IN  IF l.res.tag = "Err"
                 THEN [cache |-> g.cache, res |-> l.res]
                 ELSE [cache |-> CachePut(g.cache, cert_url, l.res.key),
                       res |-> FromValidation(
                                   VerifyWithKey(d.params, d.body, d.webhook_id,
                                                 l.res.key).res)]

\* The next call of both runs; result[1] and result[2] are what it returned
\* in the first and in the second run.
TwinCall ==
    /\ calls < MaxCalls
    /\ \E u \in CertUrls, r \in Responses, d1 \in TwinDeliveries, d2 \in TwinDeliveries :
         LET o1 == OrchestratorCall(cache, u, r, d1)
             o2 == OrchestratorCall(twin, u, r, d2)
         IN  /\ cache' = o1.cache
             /\ twin' = o2.cache
             /\ result' = [result EXCEPT ![1] = o1.res, ![2] = o2.res]
             /\ call' = [call EXCEPT
                           ![1] = [entry |-> "verify_paypal_webhook_signature",
                                   cert_url |-> u, delivery |-> d1],
                           ![2] = [entry |-> "verify_paypal_webhook_signature",
                                   cert_url |-> u, delivery |-> d2]]
    /\ calls' = calls + 1
    /\ UNCHANGED <<lock, pc, key, work, loaded, resp, used, vvars>>

NextTwin == TwinCall

SpecTwin == Init /\ [][NextTwin]_vars

(***************************************************************************)
(* The message of line 122: the verifier called with a genuine signature,  *)
(* and called again with the same body, key and signature but another      *)
(* triple (transmission_id, transmission_time, webhook_id).                *)
(***************************************************************************)

\* Calls whose signature is the one the key gives for the call's own fields.
CanonicalCalls ==
    { c \in VerifierCalls :
        /\ c.params.auth_algo = SHA256withRSA
        /\ c.params.transmission_sig =
             B64(Sign(c.verifying_key,
                      ProviderSignedString(c.params.transmission_id,
                          c.params.transmission_time, c.webhook_id, c.body))) }

InitCanonical ==
    /\ OInit
    /\ cache = <<>>
    /\ vpc = "call"
    /\ vcall \in CanonicalCalls
    /\ vout = NoOut
    /\ vprev = [field |-> "none", call |-> vcall, res |-> NoVResult]

ChangeTriple ==
    \E i \in TransmissionIds, t \in TransmissionTimes, w \in WebhookIds :
        /\ <<i, t, w>> # <<vcall.params.transmission_id,
                           vcall.params.transmission_time, vcall.webhook_id>>
        /\ Again("triple", [vcall EXCEPT !.params.transmission_id = i,
                                         !.params.transmission_time = t,
                                         !.webhook_id = w])

NextCanonical ==
    \/ VerifierRun
    \/ ChangeTriple

SpecCanonical == InitCanonical /\ [][NextCanonical]_vars

(***************************************************************************)
(* Properties                                                              *)
(***************************************************************************)

InSeq(x, s) == \E i \in 1..Len(s) : s[i] = x

\* The URL begins with one of the two provider origins.
IsProviderUrl(u) ==
    \/ (Len(u) >= 23 /\ SubSeq(u, 1, 23) = PROD_PREFIX)
    \/ (Len(u) >= 31 /\ SubSeq(u, 1, 31) = SANDBOX_PREFIX)

InCall(p) == call[p].entry # "none"
InVerifyCall(p) == call[p].entry = "verify_paypal_webhook_signature"

\* The steps of the verifier that decode or do cryptography.
DecodeOrCrypto == {"crc32", "format", "b64_decode", "sig_parse", "key_verify"}

\* C1: a call of load_verification_key or verify_paypal_webhook_signature
\* whose cert_url begins with neither provider origin never sends an HTTP
\* request and never gets past the origin check, whatever the cache holds and
\* whatever the other caller is doing, and it returns InvalidCertificateUrl.
C1_ForeignUrlRejectedWithoutRequest ==
    \A p \in Procs :
        (InCall(p) /\ ~IsProviderUrl(call[p].cert_url)) =>
            /\ ~InSeq("http_get", work[p])
            /\ pc[p] \in {"lookup_lock", "lookup", "load", "done"}
            /\ key[p] = "none"
            /\ pc[p] = "done" =>
                   result[p] = CertErr("InvalidCertificateUrl", call[p].cert_url)

\* The orchestrator has rejected the look-alike host while the cache is full
\* and the other caller has a request in flight.
C1_Witness ==
    \E p, q \in Procs :
        /\ InVerifyCall(p) /\ call[p].cert_url = UrlNear /\ pc[p] = "done"
        /\ result[p].err = "InvalidCertificateUrl"
        /\ Len(cache) = LRU_CACHE_SIZE
        /\ pc[q] = "fetch"

\* C2: verify_paypal_webhook_signature returns Ok(true) only for a provider
\* URL, the exact algorithm name, and a signature that is the one a key the
\* loader returned for this very URL accepts for the canonical string.
C2_TrueOnlyWhenAuthentic ==
    \A p \in Procs :
        (InVerifyCall(p) /\ pc[p] = "done" /\ result[p].tag = "Ok" /\ result[p].verdict) =>
            LET d == call[p].delivery
            IN  /\ IsProviderUrl(call[p].cert_url)
                /\ d.params.auth_algo = SHA256withRSA
                /\ \E k \in Keys :
                     /\ <<call[p].cert_url, k>> \in loaded
                     /\ d.params.transmission_sig =
                          B64(Sign(k, ProviderSignedString(d.params.transmission_id,
                                         d.params.transmission_time, d.webhook_id, d.body)))

\* Ok(true) with a key taken from the cache, loaded by an earlier call.
C2_Witness ==
    \E p \in Procs :
        /\ InVerifyCall(p) /\ pc[p] = "done" /\ result[p] = ROk(TRUE)
        /\ work[p][1] = "cache_hit"
        /\ call[p].cert_url = UrlSandbox

\* C3 as stated: an orchestrator call with another auth_algo sends no request,
\* does no decoding or cryptography, and fails with UnsupportedAuthAlgo.
C3_AsStated ==
    \A p \in Procs :
        (InVerifyCall(p) /\ call[p].delivery.params.auth_algo # SHA256withRSA) =>
            /\ ~InSeq("http_get", work[p])
            /\ \A s \in DecodeOrCrypto : ~InSeq(s, work[p])
            /\ pc[p] = "done" =>
                   /\ result[p].stage = "Validation"
                   /\ result[p].err = "UnsupportedAuthAlgo"

\* C3, amended: an orchestrator call with another auth_algo never decodes a
\* signature and never does cryptography; key resolution comes first (on a
\* miss, the origin check and one request), and the call fails with
\* UnsupportedAuthAlgo carrying the value when a key was resolved, and with
\* the Certificate error of the resolution otherwise.
C3_AlgoCheckedAfterKeyResolution ==
    \A p \in Procs :
        (InVerifyCall(p) /\ call[p].delivery.params.auth_algo # SHA256withRSA) =>
            /\ \A s \in DecodeOrCrypto : ~InSeq(s, work[p])
            /\ InSeq("algo", work[p]) => key[p] # "none"
            /\ pc[p] = "done" =>
                   IF key[p] # "none"
                   THEN /\ result[p].stage = "Validation"
                        /\ result[p].err = "UnsupportedAuthAlgo"
                        /\ result[p].arg = call[p].delivery.params.auth_algo
                        /\ work[p][Len(work[p])] = "algo"
                   ELSE /\ result[p].stage = "Certificate"
                        /\ ~InSeq("algo", work[p])

\* UnsupportedAuthAlgo returned after a request went out.
C3_Witness ==
    \E p \in Procs :
        /\ InVerifyCall(p) /\ pc[p] = "done"
        /\ call[p].delivery.params.auth_algo = ToLower(SHA256withRSA)
        /\ result[p].err = "UnsupportedAuthAlgo"
        /\ InSeq("http_get", work[p])

\* C4: the verifier compares auth_algo byte for byte before anything else:
\* any other value, whatever the signature text, gives UnsupportedAuthAlgo
\* with that value, and the only step taken is the comparison.
C4_AlgoFirstCaseSensitive ==
    (vpc = "returned" /\ vcall.params.auth_algo # SHA256withRSA) =>
        /\ vout.res = VErr("UnsupportedAuthAlgo", vcall.params.auth_algo)
        /\ vout.work = <<"algo">>
        /\ vout.msg = <<>>

\* The lower-case name with a signature that is not base64.
C4_Witness ==
    /\ vpc = "returned"
    /\ vcall.params.auth_algo = ToLower(SHA256withRSA)
    /\ vcall.params.transmission_sig = NotBase64
    /\ vout.res.err = "UnsupportedAuthAlgo"

\* The signature of the call is the one its key accepts for its four fields.
VCallGenuine ==
    vcall.params.transmission_sig =
        B64(Sign(vcall.verifying_key,
                 ProviderSignedString(vcall.params.transmission_id,
                     vcall.params.transmission_time, vcall.webhook_id, vcall.body)))

\* C5: the verifier's errors are UnsupportedAuthAlgo, InvalidSignatureB64 and
\* InvalidSignature and nothing else, and a signature that decodes and parses
\* but does not match gives Ok(false), not an error.
C5_MismatchIsFalse ==
    vpc = "returned" =>
        /\ vout.res.tag \in {"Ok", "Err"}
        /\ vout.res.tag = "Err" =>
               vout.res.err \in {"UnsupportedAuthAlgo", "InvalidSignatureB64",
                                 "InvalidSignature"}
        /\ ( /\ vcall.params.auth_algo = SHA256withRSA
             /\ vcall.params.transmission_sig.b64
             /\ vcall.params.transmission_sig.bytes.form = "pkcs1v15"
             /\ ~VCallGenuine ) => vout.res = VOk(FALSE)

\* A signature of the right message by the other key pair: Ok(false).
C5_Witness ==
    /\ vpc = "returned"
    /\ vcall.params.auth_algo = SHA256withRSA
    /\ vcall.verifying_key = "K1"
    /\ vcall.params.transmission_sig =
         B64(Sign("K2", ProviderSignedString(vcall.params.transmission_id,
                     vcall.params.transmission_time, vcall.webhook_id, vcall.body)))
    /\ vout.res = VOk(FALSE)

\* The call was made again with one argument changed, after it returned true.
ChangedAfterTrue ==
    /\ vpc = "returned"
    /\ vprev.field # "none"
    /\ vprev.res = VOk(TRUE)

\* C6 as stated: after a call that returned true, the same call with exactly
\* one of transmission_id, transmission_time, webhook_id or body changed
\* returns Ok(false).
C6_AsStated == ChangedAfterTrue => vout.res = VOk(FALSE)

\* C6, amended: after a call that returned true, the same call with exactly
\* one of transmission_id, transmission_time or webhook_id changed, or with
\* the body changed to one of another CRC-32, returns Ok(false), never an
\* error; a changed body of the same CRC-32 still returns Ok(true).
C6_ChangedFieldGivesFalse ==
    ChangedAfterTrue =>
        IF vprev.field = "body" /\ Crc32(vcall.body) = Crc32(vprev.call.body)
        THEN vout.res = VOk(TRUE)
        ELSE vout.res = VOk(FALSE)

\* A body of another CRC-32 after a true verdict: Ok(false).
C6_Witness ==
    /\ ChangedAfterTrue
    /\ vprev.field = "body"
    /\ vprev.call.body = BodyBraces
    /\ vcall.body = BodySpaced
    /\ vout.res = VOk(FALSE)

\* C7: with auth_algo "SHA256withRSA", the signature that the key's private
\* half produces over the canonical string of the call's transmission_id,
\* transmission_time, webhook_id and body verifies: Ok(true).
C7_GenuineVerifies ==
    (vpc = "returned" /\ vcall.params.auth_algo = SHA256withRSA /\ VCallGenuine) =>
        vout.res = VOk(TRUE)

\* A genuine delivery whose id holds a '|' and whose CRC-32 is above 2^31.
C7_Witness ==
    /\ vpc = "returned"
    /\ vcall.params.auth_algo = SHA256withRSA
    /\ VCallGenuine
    /\ vcall.params.transmission_id = <<"a", "|", "b">>
    /\ vcall.body = BodyBraces
    /\ vout.res = VOk(TRUE)

DigitValue(c) == CHOOSE v \in 0..9 : Digit(v) = c

\* The value of a string of decimal digits, as <<hi, lo>> (hi above 65535
\* when the value does not fit 32 bits).
RECURSIVE DecimalValue(_)
DecimalValue(d) ==
    IF d = <<>> THEN <<0, 0>>
    ELSE LET x == DecimalValue(SubSeq(d, 1, Len(d) - 1))
             lo == x[2] * 10 + DigitValue(d[Len(d)])
         IN  <<x[1] * 10 + lo \div 65536, lo % 65536>>

\* d writes the 32-bit value x in base 10: digits only, no sign, no leading
\* zero.
IsUnsignedDecimalOf(d, x) ==
    /\ Len(d) >= 1
    /\ \A i \in 1..Len(d) : \E v \in 0..9 : d[i] = Digit(v)
    /\ Len(d) > 1 => d[1] # "0"
    /\ DecimalValue(d) = x
    /\ x[1] \in 0..65535 /\ x[2] \in 0..65535

\* C8: the message handed to the key is transmission_id, '|',
\* transmission_time, '|', webhook_id, '|' and the CRC-32 of the raw body
\* written as an unsigned base-10 number, and nothing else.
C8_MessageFormat ==
    (vpc = "returned" /\ InSeq("key_verify", vout.work)) =>
        LET m == vout.msg
            i == vcall.params.transmission_id
            t == vcall.params.transmission_time
            w == vcall.webhook_id
            a == Len(i)
            b == a + 1 + Len(t)
            c == b + 1 + Len(w)
        IN  /\ Len(m) > c + 1
            /\ SubSeq(m, 1, a) = i
            /\ m[a + 1] = "|"
            /\ SubSeq(m, a + 2, b) = t
            /\ m[b + 1] = "|"
            /\ SubSeq(m, b + 2, c) = w
            /\ m[c + 1] = "|"
            /\ IsUnsignedDecimalOf(SubSeq(m, c + 2, Len(m)), Crc32(vcall.body))

\* A message was verified whose body has a CRC-32 of 2^31 or more and whose
\* transmission_id holds a '|'.
C8_Witness ==
    /\ vpc = "returned"
    /\ InSeq("key_verify", vout.work)
    /\ vcall.body = BodyBraces
    /\ Crc32(vcall.body)[1] >= 32768
    /\ vcall.params.transmission_id = <<"a", "|", "b">>

\* C9: with the supported algorithm, a transmission_sig that is not valid
\* base64 gives InvalidSignatureB64; the decoding comes after the algorithm
\* check and the signature is neither parsed nor verified.
C9_BadBase64 ==
    ( /\ vpc = "returned"
      /\ vcall.params.auth_algo = SHA256withRSA
      /\ ~vcall.params.transmission_sig.b64 ) =>
        /\ vout.res = VErr("InvalidSignatureB64", <<>>)
        /\ vout.work[1] = "algo"
        /\ vout.work[Len(vout.work)] = "b64_decode"
        /\ ~InSeq("sig_parse", vout.work)
        /\ ~InSeq("key_verify", vout.work)

C9_Witness ==
    /\ vpc = "returned"
    /\ vcall.params.auth_algo = SHA256withRSA
    /\ vcall.params.transmission_sig = NotBase64
    /\ vout.res.err = "InvalidSignatureB64"

\* C10: with the supported algorithm and valid base64, bytes that
\* Signature::try_from rejects give InvalidSignature, not Ok(false), and the
\* key is not invoked.
C10_MalformedSignature ==
    ( /\ vpc = "returned"
      /\ vcall.params.auth_algo = SHA256withRSA
      /\ vcall.params.transmission_sig.b64
      /\ vcall.params.transmission_sig.bytes.form = "malformed" ) =>
        /\ vout.res = VErr("InvalidSignature", <<>>)
        /\ vout.work[Len(vout.work)] = "sig_parse"
        /\ ~InSeq("key_verify", vout.work)

C10_Witness ==
    /\ vpc = "returned"
    /\ vcall.params.auth_algo = SHA256withRSA
    /\ vcall.params.transmission_sig = B64(MalformedBytes)
    /\ vout.res.err = "InvalidSignature"

(***************************************************************************)
(* The loader's stages and failures                                        *)
(***************************************************************************)

\* The stages of load_verification_key in the order of its text; the fetch is
\* the GET and the read of the body.
StageOrder ==
    <<"origin_check", "http_get", "read_body", "pem_parse", "x509_parse", "rsa_parse">>

IsPrefix(a, b) == Len(a) <= Len(b) /\ SubSeq(b, 1, Len(a)) = a

\* The steps of load_verification_key among the steps of a call.
LoadSteps(w) == SelectSeq(w, LAMBDA s : InSeq(s, StageOrder))

LastOf(s) == s[Len(s)]

\* A call that has entered load_verification_key and is over.
LoadOver(p) == pc[p] = "done" /\ LoadSteps(work[p]) # <<>>

\* C11: load_verification_key runs origin check, fetch, PEM parse, X.509
\* parse and RSA key extraction in that order and stops at the first stage
\* that fails, returning that stage's own variant (InvalidCertificateUrl,
\* Reqwest, PEMLoading, X509Nom, RSA); it has a key only when all five stages
\* succeeded.  A stage fails when its call in the code returns an error: for
\* the fetch, when reqwest::get or Response::text does.
C11_StagesInOrderFirstFailureWins ==
    \A p \in Procs :
        LET w == LoadSteps(work[p])
            u == call[p].cert_url
            r == resp[p]
        IN  /\ IsPrefix(w, StageOrder)
            /\ LoadOver(p) =>
                 IF ~IsProviderUrl(u)
                 THEN /\ result[p].stage = "Certificate"
                      /\ result[p].err = "InvalidCertificateUrl"
                      /\ w = <<"origin_check">>
                 ELSE IF r.net # "ok"
                 THEN /\ result[p].stage = "Certificate"
                      /\ result[p].err = "Reqwest"
                      /\ LastOf(w) \in {"http_get", "read_body"}
                 ELSE IF r.body.kind = "not_pem"
                 THEN /\ result[p].stage = "Certificate"
                      /\ result[p].err = "PEMLoading"
                      /\ LastOf(w) = "pem_parse"
                 ELSE IF r.body.kind = "bad_der"
                 THEN /\ result[p].stage = "Certificate"
                      /\ result[p].err = "X509Nom"
                      /\ LastOf(w) = "x509_parse"
                 ELSE IF r.body.kind = "not_rsa"
                 THEN /\ result[p].stage = "Certificate"
                      /\ result[p].err = "RSA"
                      /\ LastOf(w) = "rsa_parse"
                 ELSE /\ result[p].stage # "Certificate"
                      /\ key[p] = r.body.key
                      /\ w = StageOrder
            /\ (key[p] # "none" /\ w # <<>>) =>
                 /\ w = StageOrder
                 /\ IsProviderUrl(u)
                 /\ r.net = "ok"
                 /\ r.body.kind = "cert"
                 /\ key[p] = r.body.key
            /\ (pc[p] = "done" /\ result[p].key # "none") =>
                 (w = StageOrder /\ result[p].key = key[p])

\* A GET answered with a PEM block that is no certificate: the call is over
\* with X509Nom after the X.509 parse, the RSA stage not run.
C11_Witness ==
    \E p \in Procs :
        /\ LoadOver(p)
        /\ resp[p].body.kind = "bad_der"
        /\ result[p].err = "X509Nom"
        /\ LastOf(work[p]) = "x509_parse"

\* The GET of the call came back and counts as failed: reqwest reported an
\* error, or the server answered with a status outside 200..299.
FetchFailed(r) ==
    /\ r # NoResponse
    /\ (r.net # "ok" \/ r.status < 200 \/ r.status > 299)

\* C12: when the GET fails at the network level or is answered with a
\* non-success status, the call fails with Reqwest and the body is not
\* parsed.
C12_FetchFailureIsReqwest ==
    \A p \in Procs :
        FetchFailed(resp[p]) =>
            /\ pc[p] = "done"
            /\ result[p] = CertErr("Reqwest", <<>>)
            /\ ~InSeq("pem_parse", work[p])

Count(x, s) == Len(SelectSeq(s, LAMBDA e : e = x))

\* A stage of the call has failed: the origin check turned the URL down, the
\* GET came back with something that yields no key, or the verifier returned
\* an error.
StageFailed(p) ==
    \/ InSeq("origin_check", work[p]) /\ ~IsProviderUrl(call[p].cert_url)
    \/ resp[p] # NoResponse /\ (resp[p].net # "ok" \/ resp[p].body.kind # "cert")
    \/ result[p].tag = "Err"

\* C13: no retries.  A call of load_verification_key or of
\* verify_paypal_webhook_signature (through fetch_or_load_verification_key)
\* sends at most one GET and takes no step twice, and once a stage has failed
\* the call is over with an error, the failed stage being its last step.
C13_NoRetry ==
    \A p \in Procs :
        /\ Count("http_get", work[p]) <= 1
        /\ \A i, j \in 1..Len(work[p]) : work[p][i] = work[p][j] => i = j
        /\ StageFailed(p) =>
             /\ pc[p] = "done"
             /\ result[p].tag = "Err"
             /\ resp[p] = NoResponse =>
                  \/ LastOf(work[p]) = "origin_check"
                  \/ result[p].stage = "Validation"
             /\ (resp[p] # NoResponse /\ resp[p].body.kind # "cert") =>
                  /\ result[p].stage = "Certificate"
                  /\ LastOf(work[p]) \in
                       {"http_get", "read_body", "pem_parse", "x509_parse", "rsa_parse"}

\* A call of the orchestrator whose GET could not connect: it is over with
\* Reqwest after the one GET, nothing cached and the verifier not run.
C13_Witness ==
    \E p \in Procs :
        /\ InVerifyCall(p)
        /\ pc[p] = "done"
        /\ resp[p].net = "connect_error"
        /\ result[p].err = "Reqwest"
        /\ work[p] = <<"cache_miss", "origin_check", "http_get">>

(***************************************************************************)
(* The certificate cache                                                   *)
(***************************************************************************)

\* The URLs whose resolution through fetch_or_load_verification_key has
\* succeeded at some time: by a hit or by an insert.
Resolved == {used[i] : i \in 1..Len(used)}

\* Caller p's lookup is answered in this step.
LookupStep(p) == pc[p] = "lookup" /\ pc'[p] # "lookup"

\* Caller p's insert is done in this step.
InsertStep(p) == pc[p] = "insert" /\ pc'[p] # "insert"

\* The key CERT_CACHE holds for url, "none" when it holds none.
StoredKey(c, url) ==
    IF \E i \in 1..Len(c) : c[i].url = url
    THEN c[CHOOSE i \in 1..Len(c) : c[i].url = url].key
    ELSE "none"

\* C14 as stated: a lookup of a URL whose resolution succeeded before is a
\* hit (the call goes on to the verifier without a fetch), whatever was
\* resolved in between.
C14_AsStated ==
    [][\A p \in Procs :
         (LookupStep(p) /\ call[p].cert_url \in Resolved) => pc'[p] = "verify"]_vars

\* C14: a successful resolution leaves the URL in the cache; a cached URL
\* leaves the cache only as the least recently used entry of a full cache,
\* when another URL is inserted; and a lookup of a URL that is still cached
\* goes on to the verifier with the stored key and sends no GET.
C14_CachedUntilEvicted ==
    [][/\ \A u \in Resolved' \ Resolved : StoredKey(cache', u) # "none"
       /\ \A i \in 1..Len(cache) :
            StoredKey(cache', cache[i].url) = "none" =>
                /\ i = Len(cache)
                /\ Len(cache) = LRU_CACHE_SIZE
                /\ \E p \in Procs :
                     /\ InsertStep(p)
                     /\ StoredKey(cache, call[p].cert_url) = "none"
       /\ \A p \in Procs :
            (LookupStep(p) /\ StoredKey(cache, call[p].cert_url) # "none") =>
                /\ pc'[p] = "verify"
                /\ key'[p] = StoredKey(cache, call[p].cert_url)
                /\ work'[p] = <<"cache_hit">>
       /\ \A p \in Procs :
            (work[p] # <<>> /\ work[p][1] = "cache_hit") =>
                ~InSeq("http_get", work'[p])]_vars

\* One caller's resolution of UrlProd fetched and inserted the key; the
\* other's, made after it, was a hit and is over without a GET.
C14_Witness ==
    \E p, q \in Procs :
        /\ p # q
        /\ call[p].cert_url = UrlProd /\ call[q].cert_url = UrlProd
        /\ InSeq("cache_put", work[q])
        /\ pc[p] = "done"
        /\ work[p][1] = "cache_hit"
        /\ ~InSeq("http_get", work[p])
        /\ StoredKey(cache, UrlProd) = key[p]

\* The filler URL resolved first was evicted by the insert of another URL and
\* is looked up again: a miss, and the GET goes out once more.
C14_EvictedIsFetchedAgain ==
    \E p \in Procs :
        /\ call[p].cert_url = UrlFiller(1)
        /\ UrlFiller(1) \in Resolved
        /\ StoredKey(cache, UrlFiller(1)) = "none"
        /\ Len(cache) = LRU_CACHE_SIZE
        /\ work[p] = <<"cache_miss", "origin_check", "http_get">>

(***************************************************************************)
(* The orchestrator's result                                               *)
(***************************************************************************)

\* The variants of PayPalWebhookCertificateError and of
\* PayPalWebhookValidationError.
CertificateErrors == {"InvalidCertificateUrl", "Reqwest", "PEMLoading", "X509Nom", "RSA"}
ValidationErrors == {"UnsupportedAuthAlgo", "InvalidSignatureB64", "InvalidSignature"}

\* C16: a call of verify_paypal_webhook_signature that is over returned the
\* Certificate variant exactly when no key was resolved, and then the
\* verifier did not run; it returned the Validation variant exactly when a
\* key was resolved and the verifier, run with that key, failed, carrying the
\* verifier's error; otherwise it returned the verifier's verdict.
C16_OrchestratorResult ==
    \A p \in Procs :
        (InVerifyCall(p) /\ pc[p] = "done") =>
            LET d == call[p].delivery
                v == VerifyWithKey(d.params, d.body, d.webhook_id, key[p]).res
            IN  /\ result[p].stage = "Certificate" <=> key[p] = "none"
                /\ key[p] = "none" =>
                     /\ result[p].tag = "Err"
                     /\ result[p].err \in CertificateErrors
                     /\ ~InSeq("algo", work[p])
                /\ key[p] # "none" =>
                     /\ InSeq("algo", work[p])
                     /\ result[p].stage = "Validation" <=> v.tag = "Err"
                     /\ v.tag = "Err" =>
                          /\ result[p].tag = "Err"
                          /\ result[p].err = v.err
                          /\ result[p].err \in ValidationErrors
                          /\ result[p].arg = v.arg
                     /\ v.tag = "Ok" =>
                          /\ result[p].tag = "Ok"
                          /\ result[p].verdict = v.verdict

\* A key was fetched and the verifier, run with it, turned the signature
\* down as not base64.
C16_Witness ==
    \E p \in Procs :
        /\ InVerifyCall(p)
        /\ pc[p] = "done"
        /\ key[p] = "K2"
        /\ result[p].stage = "Validation"
        /\ result[p].err = "InvalidSignatureB64"

\* C17: in every reachable state CERT_CACHE holds at most LRU_CACHE_SIZE = 10
\* entries and no two of them have the same URL.
C17_CacheBounded ==
    /\ LRU_CACHE_SIZE = 10
    /\ Len(cache) <= 10
    /\ \A i, j \in 1..Len(cache) : cache[i].url = cache[j].url => i = j

\* A key was inserted into a cache that held ten entries: it still holds ten
\* and the new entry is one of them.
C17_Witness ==
    /\ Len(cache) = 10
    /\ cache[1].url = UrlProd
    /\ \E p \in Procs : InSeq("cache_put", work[p]) /\ call[p].cert_url = UrlProd

\* The <<url, key>> pairs CERT_CACHE holds.
Entries(c) == {<<c[i].url, c[i].key>> : i \in 1..Len(c)}

\* C18: an entry comes into CERT_CACHE only in the insert of a call whose own
\* load_verification_key returned a key for the call's URL, and it holds
\* exactly that URL and that key; a call whose load failed inserts nothing.
C18_InsertOnlyAfterLoad ==
    [][/\ \A e \in Entries(cache') \ Entries(cache) :
            \E p \in Procs :
                /\ InsertStep(p)
                /\ e = <<call[p].cert_url, key[p]>>
                /\ resp[p].net = "ok"
                /\ resp[p].body = Body("cert", key[p])
                /\ <<call[p].cert_url, key[p]>> \in loaded
                /\ LoadSteps(work[p]) = StageOrder
       /\ \A p \in Procs :
            InsertStep(p) =>
                /\ StoredKey(cache', call[p].cert_url) = key[p]
                /\ key[p] = resp[p].body.key
                /\ key[p] # "none"
       /\ \A p \in Procs :
            (result'[p].stage = "Certificate" /\ result[p].stage # "Certificate") =>
                /\ cache' = cache
                /\ ~InSeq("cache_put", work'[p])]_vars

\* The key of a certificate fetched for UrlSandbox is in the cache under
\* UrlSandbox, put there by the call that fetched it.
C18_Witness ==
    \E p \in Procs :
        /\ call[p].cert_url = UrlSandbox
        /\ resp[p].body = Body("cert", "K2")
        /\ InSeq("cache_put", work[p])
        /\ cache[1] = [url |-> UrlSandbox, key |-> "K2"]

\* The URLs of the cache in its order, most recently used first.
UrlOrder(c) == [i \in 1..Len(c) |-> c[i].url]

\* C19: a lookup that finds the URL in CERT_CACHE returns the key stored for
\* it, makes its entry the most recently used and leaves the other entries in
\* their order: the same URLs with the same keys are cached afterwards; the
\* call then goes to the verifier and sends no GET.
C19_HitEffect ==
    [][\A p \in Procs :
         /\ (LookupStep(p) /\ StoredKey(cache, call[p].cert_url) # "none") =>
              /\ pc'[p] = "verify"
              /\ key'[p] = StoredKey(cache, call[p].cert_url)
              /\ Entries(cache') = Entries(cache)
              /\ Len(cache') = Len(cache)
              /\ cache'[1] = [url |-> call[p].cert_url, key |-> key'[p]]
              /\ UrlOrder(cache') = Touch(call[p].cert_url, UrlOrder(cache))
              /\ loaded' = loaded
              /\ resp' = resp
         /\ (LookupStep(p) /\ pc'[p] = "verify") =>
              StoredKey(cache, call[p].cert_url) # "none"
         /\ (work[p] # <<>> /\ work[p][1] = "cache_hit") =>
              /\ ~InSeq("http_get", work'[p])
              /\ resp'[p] = NoResponse
              /\ pc'[p] \in {"verify", "done", "idle"}]_vars

\* A lookup of the least recently used of ten entries was a hit: the entry is
\* now the first, all ten are still cached, and the call ended without a GET.
C19_Witness ==
    \E p \in Procs :
        /\ call[p].cert_url = UrlFiller(1)
        /\ pc[p] = "done"
        /\ work[p][1] = "cache_hit"
        /\ key[p] = "K1"
        /\ Len(cache) = 10
        /\ cache[1].url = UrlFiller(1)
        /\ cache[2].url = UrlFiller(10)

\* Where x stands in s.
Pos(x, s) == CHOOSE i \in 1..Len(s) : s[i] = x

\* Of the cached URLs, the one whose last hit or insert lies furthest back.
LeastRecentlyUsed(c) ==
    CHOOSE u \in CacheUrls(c) : \A v \in CacheUrls(c) : Pos(v, used) <= Pos(u, used)

\* The entries of c whose URL is not url, in their order.
Others(c, url) == SelectSeq(c, LAMBDA e : e.url # url)

\* C20: the insert after a miss and a successful load puts the caller's URL
\* and key in as the most recently used entry.  When the cache holds 10
\* entries for other URLs, exactly one entry leaves, the one whose last hit
\* or insert is the oldest; below capacity none leaves; the entries that stay
\* keep their keys and their order.
C20_InsertEffect ==
    [][\A p \in Procs :
         InsertStep(p) =>
           LET u == call[p].cert_url
               gone == CacheUrls(cache) \ CacheUrls(cache')
           IN  /\ InSeq("cache_miss", work[p])
               /\ cache'[1] = [url |-> u, key |-> key[p]]
               /\ Others(cache', u) = Others(cache, u) \/ gone # {}
               /\ IF u \in CacheUrls(cache) THEN gone = {}
                  ELSE IF Len(cache) = 10
                  THEN /\ gone = {LeastRecentlyUsed(cache)}
                       /\ Len(cache') = 10
                       /\ Others(cache', u) =
                            Others(cache, LeastRecentlyUsed(cache))
                  ELSE /\ gone = {}
                       /\ Len(cache') = Len(cache) + 1]_vars

\* Of ten cached entries the oldest was hit, then another URL was inserted:
\* the second oldest left, the one hit stayed.
C20_Witness ==
    /\ Len(cache) = 10
    /\ cache[1].url = UrlProd
    /\ cache[2].url = UrlFiller(1)
    /\ StoredKey(cache, UrlFiller(2)) = "none"
    /\ \E p \in Procs : InSeq("cache_put", work[p]) /\ call[p].cert_url = UrlProd

(***************************************************************************)
(* The lock and the callers                                                *)
(***************************************************************************)

\* Caller p is inside load_verification_key: before the origin check or
\* waiting for the GET.
InLoad(p) == pc[p] \in {"load", "fetch"}

\* C21: in every reachable state the caller holding the lock of CERT_CACHE is
\* inside the lookup block or at the insert, never inside
\* load_verification_key; so while a caller waits for its GET the lock is
\* free or held by another caller's lookup or insert.
C21_NoLockAcrossFetch ==
    /\ lock \in Procs \cup {0}
    /\ \A p \in Procs :
         /\ InLoad(p) => lock # p
         /\ lock = p => pc[p] \in {"lookup", "insert"}

\* One caller waits for its GET while the other holds the lock for its own
\* lookup.
C21_Witness ==
    \E p, q \in Procs :
        /\ pc[p] = "fetch"
        /\ pc[q] = "lookup"
        /\ lock = q

\* Both callers are in verify_paypal_webhook_signature for the same URL and
\* the lookup of each was a miss.
BothMissed(p, q) ==
    /\ p # q
    /\ InVerifyCall(p) /\ InVerifyCall(q)
    /\ call[p].cert_url = call[q].cert_url
    /\ InSeq("cache_miss", work[p]) /\ InSeq("cache_miss", work[q])

\* C22 as stated: two callers that both missed for the same URL and both
\* have a key have the same key.
C22_AsStated ==
    \A p, q \in Procs :
        (BothMissed(p, q) /\ key[p] # "none" /\ key[q] # "none") => key[p] = key[q]

\* Callers that both missed for the same URL and were served the same
\* response have the same key, and for the same delivery the same result.
DoubleMissAgrees ==
    \A p, q \in Procs :
        (BothMissed(p, q) /\ resp[p] # NoResponse /\ resp[p] = resp[q]) =>
            /\ key[p] = key[q]
            /\ (pc[p] = "done" /\ pc[q] = "done"
                  /\ call[p].delivery = call[q].delivery) => result[p] = result[q]

\* C22: the insert of a URL that another caller has inserted meanwhile
\* replaces that entry's key and makes it the most recently used; no entry
\* leaves and the size stays; when both fetches were served the same
\* certificate the cached pairs are the same as before, both callers hold the
\* same key and, for the same delivery, return the same result.
C22_DoubleMiss ==
    [][/\ \A p \in Procs :
            (InsertStep(p) /\ call[p].cert_url \in CacheUrls(cache)) =>
                LET u == call[p].cert_url
                IN  /\ Len(cache') = Len(cache)
                    /\ CacheUrls(cache') = CacheUrls(cache)
                    /\ cache'[1] = [url |-> u, key |-> key[p]]
                    /\ Others(cache', u) = Others(cache, u)
                    /\ key[p] = StoredKey(cache, u) => Entries(cache') = Entries(cache)
       /\ DoubleMissAgrees']_vars

\* Both callers missed for UrlProd, fetched the same certificate and put it
\* into a cache that was full: UrlProd is cached once, among ten entries.
C22_Witness ==
    \E p, q \in Procs :
        /\ BothMissed(p, q)
        /\ call[p].cert_url = UrlProd
        /\ resp[p] = resp[q]
        /\ InSeq("cache_put", work[p]) /\ InSeq("cache_put", work[q])
        /\ key[p] = "K1" /\ key[q] = "K1"
        /\ Len(cache) = 10
        /\ cache[1] = [url |-> UrlProd, key |-> "K1"]
        /\ Others(cache, UrlProd) = SubSeq(Prefilled(LRU_CACHE_SIZE), 1, 9)

\* The server has served, for url, a certificate of a key other than k.
RotatedAway(url, k) == \E l \in loaded : l[1] = url /\ l[2] # k

\* C23: a lookup of a cached URL returns the cached key, whatever the server
\* serves for the URL by now, and leaves that key cached; the key cached for
\* a URL changes only when an insert for that URL overwrites it, and goes
\* only by eviction.
C23_NoFreshnessCheck ==
    [][/\ \A p \in Procs :
            (LookupStep(p) /\ call[p].cert_url \in CacheUrls(cache)) =>
                LET u == call[p].cert_url
                IN  /\ key'[p] = StoredKey(cache, u)
                    /\ StoredKey(cache', u) = StoredKey(cache, u)
                    /\ pc'[p] = "verify"
                    /\ resp'[p] = NoResponse
       /\ \A u \in CacheUrls(cache) :
            StoredKey(cache', u) # StoredKey(cache, u) =>
                \E p \in Procs :
                    /\ InsertStep(p)
                    /\ \/ call[p].cert_url = u /\ StoredKey(cache', u) = key[p]
                       \/ /\ StoredKey(cache', u) = "none"
                          /\ call[p].cert_url \notin CacheUrls(cache)
                          /\ Len(cache) = LRU_CACHE_SIZE]_vars

\* The server now serves a certificate of K2 for the first filler URL (a
\* direct load returned it); a lookup of that URL was a hit all the same and
\* the call goes on with the cached K1.
C23_Witness ==
    \E p, q \in Procs :
        /\ call[q].cert_url = UrlFiller(1)
        /\ call[q].entry = "load_verification_key"
        /\ pc[q] = "done" /\ result[q].key = "K2"
        /\ call[p].cert_url = UrlFiller(1)
        /\ work[p] = <<"cache_hit">>
        /\ key[p] = "K1"
        /\ RotatedAway(UrlFiller(1), key[p])
        /\ StoredKey(cache, UrlFiller(1)) = "K1"

\* Two strings are the same string: the same length and the same character
\* at every place.
SameString(a, b) == Len(a) = Len(b) /\ \A i \in 1..Len(a) : a[i] = b[i]

\* The number of places at which two strings of the same length differ.
Differences(a, b) == Cardinality({i \in 1..Len(a) : a[i] # b[i]})

\* C24: a lookup is a hit exactly when an entry is cached under the very
\* string looked up, and it returns that entry's key; an entry under any
\* other string, however close, gives a miss, and the insert that follows
\* adds an entry of its own and leaves the other URL's key alone.
C24_ExactUrlMatch ==
    [][\A p \in Procs :
         LET u == call[p].cert_url
             same == {i \in 1..Len(cache) : SameString(cache[i].url, u)}
         IN  /\ LookupStep(p) =>
                  /\ pc'[p] = "verify" <=> same # {}
                  /\ pc'[p] = "load" <=> same = {}
                  /\ same # {} => \E i \in same : key'[p] = cache[i].key
                  /\ same = {} => key'[p] = "none" /\ cache' = cache
             /\ InsertStep(p) =>
                  /\ SameString(cache'[1].url, u)
                  /\ \A i \in 1..Len(cache') :
                       (i # 1 /\ ~SameString(cache'[i].url, u)) =>
                           \E j \in 1..Len(cache) : cache[j] = cache'[i]]_vars

\* With ".../f1" cached, ".../c1", which differs from it in one character,
\* was looked up, missed, fetched and cached beside it; ".../f10", of which
\* ".../f1" is a prefix, is cached too.
C24_Witness ==
    \E p \in Procs :
        /\ call[p].cert_url = UrlProd
        /\ Len(UrlProd) = Len(UrlFiller(1))
        /\ Differences(UrlProd, UrlFiller(1)) = 1
        /\ InSeq("cache_miss", work[p])
        /\ InSeq("http_get", work[p])
        /\ InSeq("cache_put", work[p])
        /\ StoredKey(cache, UrlProd) = "K2"
        /\ StoredKey(cache, UrlFiller(1)) = "K1"
        /\ StoredKey(cache, UrlFiller(10)) = "K1"

(***************************************************************************)
(* The message and its fields                                              *)
(***************************************************************************)

\* The message line 122 builds for a call of the verifier.
MessageOf(c) ==
    ExpectedSig(c.params.transmission_id, c.params.transmission_time, c.webhook_id,
                Hash(c.body))

\* C28: after a call that returned true, the same call with another triple
\* (transmission_id, transmission_time, webhook_id), the body and signature
\* kept, is given another message to verify and does not return true.
C28_TripleDeterminedByMessage ==
    (vpc = "returned" /\ vprev.field = "triple" /\ vprev.res = VOk(TRUE)) =>
        /\ MessageOf(vcall) # MessageOf(vprev.call)
        /\ vout.res # VOk(TRUE)

\* Caller p's call of the orchestrator missed and its load failed.
MissedAndFailed(p) ==
    /\ InVerifyCall(p)
    /\ pc[p] = "done"
    /\ result[p].stage = "Certificate"

\* C26: a lookup that misses leaves CERT_CACHE as it is, and so does every
\* step of load_verification_key after it; a call that missed and whose load
\* failed returns one of the five certificate errors without a hit or an
\* insert among its steps, and when no other call was made the cache is the
\* one the run began with: same URLs, same keys, same order.
C26_FailedLoadLeavesCache ==
    [][\A p \in Procs :
         /\ (LookupStep(p) /\ pc'[p] = "load") => cache' = cache /\ used' = used
         /\ (InLoad(p) /\ pc'[p] # pc[p]) => cache' = cache /\ used' = used
         /\ MissedAndFailed(p)' =>
              /\ result'[p].err \in CertificateErrors
              /\ work'[p][1] = "cache_miss"
              /\ ~InSeq("cache_hit", work'[p])
              /\ ~InSeq("cache_put", work'[p])
              /\ calls' = 1 =>
                   /\ cache' \in {Prefilled(0), Prefilled(LRU_CACHE_SIZE)}
                   /\ used' = UrlOrder(cache')]_vars

\* The only call of the run missed in a full cache and got a body that is
\* not PEM: the ten entries are there in their order.
C26_Witness ==
    \E p \in Procs :
        /\ MissedAndFailed(p)
        /\ calls = 1
        /\ call[p].cert_url = UrlProd
        /\ result[p].err = "PEMLoading"
        /\ cache = Prefilled(LRU_CACHE_SIZE)

\* C27: in every reachable state every URL in CERT_CACHE begins with
\* "https://api.paypal.com/" or "https://api.sandbox.paypal.com/", and every
\* call that went on from a hit has such a URL.
C27_CachedUrlsAllowed ==
    /\ \A i \in 1..Len(cache) : IsProviderUrl(cache[i].url)
    /\ \A p \in Procs :
         InSeq("cache_hit", work[p]) => IsProviderUrl(call[p].cert_url)

\* A sandbox URL was fetched and cached in the run, and calls were made with
\* a URL of another host.
C27_Witness ==
    /\ cache # <<>>
    /\ cache[1].url = UrlSandbox
    /\ \E p \in Procs :
         /\ call[p].cert_url = UrlNear
         /\ pc[p] = "done"
         /\ InSeq("cache_miss", work[p])
         /\ result[p].err = "InvalidCertificateUrl"

\* The steps of verify_paypal_webhook_signature_with_key.
VerifierSteps == {"algo", "crc32", "format", "b64_decode", "sig_parse", "key_verify"}

\* Caller p's call of the verifier is made in this step.
VerifyStep(p) == pc[p] = "verify" /\ pc'[p] = "done"

\* C29 as stated: when a call of verify_paypal_webhook_signature that
\* resolved a key is over, its cert_url is the first (most recently used)
\* entry of CERT_CACHE.
C29_AsStated ==
    \A p \in Procs :
        (InVerifyCall(p) /\ pc[p] = "done" /\ key[p] # "none") =>
            /\ cache # <<>>
            /\ cache[1].url = call[p].cert_url

\* C29: the step that resolves a key, a hit or an insert, leaves cert_url as
\* the most recently used entry of CERT_CACHE, holding the key the caller
\* goes on with, before the verifier is called; the first entry is always the
\* URL used last, so cert_url stays first until another call hits or inserts;
\* the verifier's step changes neither the cache nor the lock and sends no
\* request, whatever its result.
C29_CachedBeforeValidation ==
    [][/\ \A p \in Procs :
            /\ ((LookupStep(p) /\ pc'[p] = "verify") \/ InsertStep(p)) =>
                 /\ cache'[1] = [url |-> call[p].cert_url, key |-> key'[p]]
                 /\ pc'[p] = "verify"
                 /\ ~\E s \in VerifierSteps : InSeq(s, work'[p])
            /\ VerifyStep(p) =>
                 /\ cache' = cache /\ used' = used /\ lock' = lock
                 /\ resp' = resp /\ loaded' = loaded
                 /\ IsPrefix(work[p], work'[p])
                 /\ \A i \in (Len(work[p]) + 1)..Len(work'[p]) :
                      work'[p][i] \in VerifierSteps
                 /\ result'[p] \in
                      {ROk(TRUE), ROk(FALSE)} \cup
                      {[tag |-> "Err", verdict |-> FALSE, key |-> "none",
                        stage |-> "Validation", err |-> e, arg |-> a] :
                          e \in ValidationErrors, a \in {<<>>} \cup AuthAlgos}
       /\ used' # <<>> => (cache' # <<>> /\ cache'[1].url = used'[1])]_vars

\* A key of another pair was fetched and cached for UrlProd, and the call
\* ended in Ok(false) with the entry first in the cache.
C29_Witness ==
    \E p \in Procs :
        /\ InVerifyCall(p)
        /\ pc[p] = "done"
        /\ call[p].cert_url = UrlProd
        /\ key[p] = "K2"
        /\ result[p] = ROk(FALSE)
        /\ cache # <<>>
        /\ cache[1] = [url |-> UrlProd, key |-> "K2"]

\* Caller p's call has been made and is not over.
Running(p) == pc[p] \notin {"idle", "done"}

\* C30: with every GET coming back and fair scheduling, every call that was
\* made is over in the end, and the lock, once taken, is free again in the
\* end; the lock is held only within the lookup block and at the insert, so
\* it is released on the hit, on the miss, on a failed load and after the
\* insert, and no caller waits for the lock while holding it.
C30_EveryCallReturns ==
    /\ [](\A p \in Procs :
            /\ pc[p] \in {"lookup_lock", "insert_lock"} => lock # p
            /\ pc[p] \in {"idle", "load", "fetch", "verify", "done"} => lock # p)
    /\ \A p \in Procs : Running(p) ~> (pc[p] = "done")
    /\ \A p \in Procs : (lock = p) ~> (lock = 0)

\* Both callers missed, fetched and inserted, taking the lock twice each, and
\* both calls are over with the lock free.
C30_Witness ==
    /\ lock = 0
    /\ \A p \in Procs :
         /\ pc[p] = "done"
         /\ InSeq("cache_miss", work[p])
         /\ InSeq("cache_put", work[p])

(***************************************************************************)
(* What a call leaves behind                                               *)
(***************************************************************************)

\* C25: two runs of calls that use the same cert_urls and see the same
\* responses, whatever the params, body and webhook_id of each call, leave
\* CERT_CACHE in the same state: the same URLs with the same keys in the same
\* order.
C25_CacheIndependentOfDelivery == twin = cache

\* Two calls were made in each run; the last, for UrlProd, fetched and cached
\* a key in both runs, verified in the one run and did not in the other.
C25_Witness ==
    /\ calls = 2
    /\ call[1].cert_url = UrlProd
    /\ call[1].delivery # call[2].delivery
    /\ call[2].delivery = DeliveryOther
    /\ result[1] = ROk(TRUE)
    /\ result[2] = ROk(FALSE)
    /\ cache # <<>>
    /\ cache[1] = [url |-> UrlProd, key |-> "K1"]
    /\ twin = cache

====
